---- MODULE Spec2Model ----
(***************************************************************************)
(* A model of the Relic Chunky tooling:                                    *)
(*   - relic/sga/offset_info.py      OffsetInfo (pack, unpack, absolute)   *)
(*   - relic/chunk_formats/wtp.py    the WTP chunk decoders and dumpers    *)
(*   - relic/chunky/dumpy_chunky.py  the batch runner                      *)
(* Each component has its own specification (SpecOffset, SpecTpat, ...);   *)
(* the variables of the other components rest at their idle values.        *)
(***************************************************************************)
EXTENDS Integers, Sequences, FiniteSets, TLC

VARIABLES
    info,       \* the OffsetInfo object: [offset_relative, count]
    stream,     \* the BinaryIO handed to pack/unpack: [data, pos]
    unpacked,   \* what the last OffsetInfo.unpack returned (or raised)
    packed,     \* what the last pack saw: [info, result]
    lastOp,     \* the last OffsetInfo operation: [op, arg, before]
    folder,     \* the FolderChunk handed to the WTP decoders
    call,       \* the last call made on the folder: [op, id, optional, result]
    decoded,    \* a data chunk and what its decoder made of it: [chunk, result]
    outer,      \* the stream a scoped window is opened on: [data, pos]
    win,        \* the scoped window: [start, length, state, ...]
    batch       \* a batch dumper's run: [tool, files, i, log, status]

offsetVars == <<info, stream, unpacked, packed, lastOp>>
tpatVars == <<folder, call, decoded>>
windowVars == <<outer, win>>
batchVars == <<batch>>

vars == <<info, stream, unpacked, packed, lastOp, folder, call, decoded,
          outer, win, batch>>

\* ------------------------------------------------------------------------
\* Bounds
\* ------------------------------------------------------------------------

\* Offsets and counts 0..MaxSmall are tried beside the boundary values.
MaxSmall == 2

\* A folder holds at most MaxChildren children.
MaxChildren == 4

\* A payload carries at most MaxTail bytes after its eight-byte header.
MaxTail == 3

\* The stream a window is opened on holds MaxStream bytes.
MaxStream == 4

\* A batch holds at most MaxFiles files.
MaxFiles == 3

\* ------------------------------------------------------------------------
\* Little-endian fixed-width integers (struct, "<" layouts)
\* ------------------------------------------------------------------------

RECURSIVE Pow(_, _)
Pow(b, e) == IF e = 0 THEN 1 ELSE b * Pow(b, e - 1)

\* struct.pack of one unsigned little-endian field of `width` bytes:
\* the least significant byte first.
PackUnsignedLE(n, width) ==
    [i \in 1..width |-> (n \div Pow(256, i - 1)) % 256]

\* struct.unpack of one unsigned little-endian field.
RECURSIVE UnpackUnsignedLE(_)
UnpackUnsignedLE(bs) ==
    IF bs = <<>> THEN 0
    ELSE Head(bs) + 256 * UnpackUnsignedLE(Tail(bs))

\* struct.unpack of one signed little-endian 32-bit field ("l": two's
\* complement). The top byte carries the sign.
UnpackSignedLE32(bs) ==
    LET low == UnpackUnsignedLE(SubSeq(bs, 1, 3))
        top == bs[4]
    IN  (IF top >= 128 THEN top - 256 ELSE top) * Pow(256, 3) + low

\* Python integers are unbounded and a uint32 does not fit the model
\* checker's integers, so an offset is kept as hi * 2^16 + lo with
\* 0 <= lo < 2^16 and hi any integer: the representation is unique.
Half == 65536

Wide(hi, lo) == [hi |-> hi, lo |-> lo]

WideOf(n) == Wide(n \div Half, n % Half)

\* w + k and w - k for an integer k.
WideAdd(w, k) == Wide(w.hi + ((w.lo + k) \div Half), (w.lo + k) % Half)
WideSub(w, k) == Wide(w.hi + ((w.lo - k) \div Half), (w.lo - k) % Half)

\* ------------------------------------------------------------------------
\* relic/sga/offset_info.py
\* ------------------------------------------------------------------------

\* relic.sga.shared.ARCHIVE_HEADER_OFFSET, imported at offset_info.py:5; the
\* module that sets it is not among the files modelled, and nothing below
\* depends on its value beyond its being a fixed non-negative integer.
ARCHIVE_HEADER_OFFSET == 180

\* Struct("< L H"): a uint32 then a uint16, no padding.
OFFSET_LAYOUT_L == 4
OFFSET_LAYOUT_H == 2
OFFSET_LAYOUT_size == OFFSET_LAYOUT_L + OFFSET_LAYOUT_H

MaxUInt16 == Half - 1

\* The largest uint32, 2^32 - 1.
MaxUInt32 == Wide(MaxUInt16, MaxUInt16)

None == [none |-> TRUE]

\* The WTP decoders at rest (no folder loaded).
TpatIdle ==
    /\ folder = None
    /\ call = None
    /\ decoded = None

\* No window open, no batch running.
WindowIdle == outer = None /\ win = None
BatchIdle == batch = None

\* 0 <= w <= 2^32 - 1
FitsUInt32(w) == 0 <= w.hi /\ w.hi <= MaxUInt16

FitsUInt16(n) == 0 <= n /\ n <= MaxUInt16

\* Struct.pack raises struct.error for a field outside its width.
OffsetLayoutFits(rel, cnt) == FitsUInt32(rel) /\ FitsUInt16(cnt)

\* struct.pack of a uint32 ("L"): the low half's two bytes, then the high
\* half's.
PackUInt32LE(w) == PackUnsignedLE(w.lo, 2) \o PackUnsignedLE(w.hi, 2)

UnpackUInt32LE(bs) ==
    Wide(UnpackUnsignedLE(SubSeq(bs, 3, 4)), UnpackUnsignedLE(SubSeq(bs, 1, 2)))

\* A plausible slip: the two fields written in the other order.
OffsetLayoutPackSwapped(rel, cnt) ==
    PackUnsignedLE(cnt, OFFSET_LAYOUT_H) \o PackUInt32LE(rel)

OffsetLayoutPack(rel, cnt) ==
    PackUInt32LE(rel) \o PackUnsignedLE(cnt, OFFSET_LAYOUT_H)

OffsetLayoutUnpack(bs) ==
    [offset_relative |-> UnpackUInt32LE(SubSeq(bs, 1, OFFSET_LAYOUT_L)),
     count |-> UnpackUnsignedLE(SubSeq(bs, OFFSET_LAYOUT_L + 1, OFFSET_LAYOUT_size))]

\* The property offset_absolute (getter).
offset_absolute(o) == WideAdd(o.offset_relative, ARCHIVE_HEADER_OFFSET)

\* A plausible slip in the setter: the base added instead of subtracted.
SetterAddsBase(o, abs_offset) ==
    [o EXCEPT !.offset_relative = WideAdd(abs_offset, ARCHIVE_HEADER_OFFSET)]

\* The property offset_absolute (setter).
offset_absolute_set(o, abs_offset) ==
    [o EXCEPT !.offset_relative = WideSub(abs_offset, ARCHIVE_HEADER_OFFSET)]

\* The values the model constructs OffsetInfo with: the boundary values of
\* each field and the small ones. Wide(258, 772) is 0x01020304.
RelValues ==
    {WideOf(n) : n \in (0..MaxSmall) \cup {255, 256, MaxUInt16, Half}}
    \cup {Wide(258, 772), Wide(MaxUInt16, MaxUInt16 - 1), MaxUInt32}
CountValues == (0..MaxSmall) \cup {255, 256, 258, MaxUInt16}

\* The values assigned to offset_absolute: below the base, around it, and
\* around the top of the relative field.
AbsValues ==
    {WideOf(n) : n \in (0..MaxSmall) \cup
        {ARCHIVE_HEADER_OFFSET - 1, ARCHIVE_HEADER_OFFSET, ARCHIVE_HEADER_OFFSET + 1,
         ARCHIVE_HEADER_OFFSET + Half}}
    \cup {WideAdd(MaxUInt32, ARCHIVE_HEADER_OFFSET),
          WideAdd(MaxUInt32, ARCHIVE_HEADER_OFFSET + 1)}

EmptyStream == [data |-> <<>>, pos |-> 0]

InitOffset ==
    /\ TpatIdle /\ WindowIdle /\ BatchIdle
    /\ info \in [offset_relative : RelValues, count : CountValues]
    /\ stream = EmptyStream
    /\ unpacked = None
    /\ packed = None
    /\ lastOp = [op |-> "init", arg |-> WideOf(0), before |-> None]

\* o.offset_absolute = a
SetOffsetAbsolute(a) ==
    /\ info' = offset_absolute_set(info, a)
    /\ lastOp' = [op |-> "set", arg |-> a, before |-> info]
    /\ UNCHANGED <<stream, unpacked, packed>>
    /\ UNCHANGED <<tpatVars, windowVars, batchVars>>

\* o.pack(stream) on a fresh BytesIO: the six bytes are written and the
\* position is left behind them; a field that does not fit raises
\* struct.error and nothing is written.
Pack ==
    /\ IF OffsetLayoutFits(info.offset_relative, info.count)
       THEN /\ stream' = [data |-> OffsetLayoutPack(info.offset_relative, info.count),
                          pos |-> OFFSET_LAYOUT_size]
            /\ packed' = [info |-> info, result |-> "written"]
       ELSE /\ stream' = EmptyStream
            /\ packed' = [info |-> info, result |-> "struct.error"]
    /\ unpacked' = None
    /\ lastOp' = [op |-> "pack", arg |-> WideOf(0), before |-> info]
    /\ UNCHANGED info
    /\ UNCHANGED <<tpatVars, windowVars, batchVars>>

\* stream.seek(0)
Rewind ==
    /\ stream.pos # 0
    /\ stream' = [stream EXCEPT !.pos = 0]
    /\ lastOp' = [op |-> "seek", arg |-> WideOf(0), before |-> info]
    /\ UNCHANGED <<info, unpacked, packed>>
    /\ UNCHANGED <<tpatVars, windowVars, batchVars>>

\* OffsetInfo.unpack(stream): reads the layout's six bytes at the position.
Unpack ==
    /\ LET avail == SubSeq(stream.data, stream.pos + 1, Len(stream.data))
       IN  IF Len(avail) >= OFFSET_LAYOUT_size
           THEN /\ unpacked' = OffsetLayoutUnpack(SubSeq(avail, 1, OFFSET_LAYOUT_size))
                /\ stream' = [stream EXCEPT !.pos = stream.pos + OFFSET_LAYOUT_size]
           ELSE /\ unpacked' = [error |-> "TruncatedReadError"]
                /\ stream' = [stream EXCEPT !.pos = Len(stream.data)]
    /\ lastOp' = [op |-> "unpack", arg |-> WideOf(0), before |-> info]
    /\ UNCHANGED <<info, packed>>
    /\ UNCHANGED <<tpatVars, windowVars, batchVars>>

OffsetIdle ==
    /\ info = [offset_relative |-> WideOf(0), count |-> 0]
    /\ stream = EmptyStream
    /\ unpacked = None
    /\ packed = None
    /\ lastOp = [op |-> "init", arg |-> WideOf(0), before |-> None]

NextOffset ==
    \/ \E a \in AbsValues : SetOffsetAbsolute(a)
    \/ Pack
    \/ Rewind
    \/ Unpack

SpecOffset == InitOffset /\ [][NextOffset]_vars

IsOffsetInfo(v) == DOMAIN v = {"offset_relative", "count"}

\* C1: unpacking the bytes a pack wrote, from their start, yields an
\* OffsetInfo equal to the one packed (same offset_relative, same count).
C1_PackUnpackRoundTrip ==
    (IsOffsetInfo(unpacked) /\ packed # None) => unpacked = packed.info

\* C1 witness: a two-byte-wide count and a four-byte-wide offset went
\* through pack and unpack.
C1_Witness ==
    /\ IsOffsetInfo(unpacked)
    /\ packed # None
    /\ packed.info.offset_relative = Wide(258, 772)
    /\ packed.info.count = 258
    /\ unpacked = packed.info

\* C2: after offset_absolute is set to a, reading it returns a, the
\* relative offset is a - ARCHIVE_HEADER_OFFSET and count is unchanged.
C2_AbsoluteRelativeConsistent ==
    lastOp.op = "set" =>
        /\ offset_absolute(info) = lastOp.arg
        /\ info.offset_relative = WideSub(lastOp.arg, ARCHIVE_HEADER_OFFSET)
        /\ info.count = lastOp.before.count

\* C2 witness: an assignment that changed the relative offset.
C2_Witness ==
    /\ lastOp.op = "set"
    /\ lastOp.arg = WideOf(ARCHIVE_HEADER_OFFSET + Half)
    /\ lastOp.before.offset_relative # WideOf(Half)
    /\ info.offset_relative = WideOf(Half)

\* C3: after any assignments to offset_absolute the relative offset fits
\* the unsigned 32-bit field, so that pack can encode it.
C3_RelativeFitsField ==
    /\ FitsUInt32(info.offset_relative)
    /\ (packed # None => packed.result # "struct.error")

\* ------------------------------------------------------------------------
\* relic/chunk_formats/wtp.py: the chunk decoders
\* ------------------------------------------------------------------------

\* struct.pack of one signed little-endian 32-bit field (used to build the
\* payloads the decoders are run on).
PackSignedLE32(n) ==
    PackUnsignedLE(n % Pow(256, 3), 3) \o <<(n \div Pow(256, 3)) % 256>>

DataChunk(id, data) == [kind |-> "Data", id |-> id, data |-> data]
FolderChunk(id, chunks) == [kind |-> "Folder", id |-> id, chunks |-> chunks]

Raised(name) == [error |-> name]
IsError(v) == DOMAIN v = {"error"}

\* An exception raised by x leaves the function; otherwise the function
\* goes on with the value.
Bind(x, F(_)) == IF IsError(x) THEN x ELSE F(x)

\* The children of a folder whose id matches, in document order.
RECURSIVE Matching(_, _)
Matching(chunks, id) ==
    IF chunks = <<>> THEN <<>>
    ELSE IF Head(chunks).id = id
         THEN <<Head(chunks)>> \o Matching(Tail(chunks), id)
         ELSE Matching(Tail(chunks), id)

\* FolderChunk.get_chunk(id, optional): the first child matching id; None
\* when there is none and optional, ChunkNotFoundError otherwise.
FirstOrAbsent(found, optional) ==
    IF found # <<>> THEN Head(found)
    ELSE IF optional THEN None
    ELSE Raised("ChunkNotFoundError")

get_chunk(chunk, id, optional) ==
    FirstOrAbsent(Matching(chunk.chunks, id), optional)

\* FolderChunk.get_chunk_list(id, optional): every child matching id, in
\* order; an empty result is an error unless optional.
AllOrAbsent(found, optional) ==
    IF found = <<>> /\ ~optional
    THEN Raised("ChunkNotFoundError")
    ELSE [list |-> found]

get_chunk_list(chunk, id, optional) ==
    AllOrAbsent(Matching(chunk.chunks, id), optional)

Min(a, b) == IF a < b THEN a ELSE b

\* BytesIO.read(n): at most n bytes from pos (0-based); all of the rest for
\* a negative n.
StreamRead(data, pos, n) ==
    LET rest == SubSeq(data, pos + 1, Len(data))
    IN  IF n < 0 \/ n >= Len(rest) THEN rest ELSE SubSeq(rest, 1, n)

\* Struct("< l l").size
INT_PAIR_size == 8

\* Struct("< f f f f").size
FLOAT_QUAD_size == 16

\* A plausible slip: the dataclass built with the fields as they were read,
\* height first.
InfoChunkCreateUnswapped(chunk) ==
    LET buffer == StreamRead(chunk.data, 0, INT_PAIR_size)
    IN  IF Len(buffer) # INT_PAIR_size THEN Raised("struct.error")
        ELSE [type |-> "InfoChunk",
              width |-> UnpackSignedLE32(SubSeq(buffer, 1, 4)),
              height |-> UnpackSignedLE32(SubSeq(buffer, 5, 8))]

\* InfoChunk.create: height, width = unpack(read(8)); InfoChunk(width, height).
InfoChunkCreate(chunk) ==
    LET buffer == StreamRead(chunk.data, 0, INT_PAIR_size)
    IN  IF Len(buffer) # INT_PAIR_size THEN Raised("struct.error")
        ELSE LET height == UnpackSignedLE32(SubSeq(buffer, 1, 4))
                 width == UnpackSignedLE32(SubSeq(buffer, 5, 8))
             IN  [type |-> "InfoChunk", width |-> width, height |-> height]

\* A plausible slip: the image read to the end of the payload, whatever
\* size the header declares.
PtldChunkCreateReadsRest(chunk) ==
    LET buffer == StreamRead(chunk.data, 0, INT_PAIR_size)
    IN  IF Len(buffer) # INT_PAIR_size THEN Raised("struct.error")
        ELSE [type |-> "PtldChunk",
              layer |-> UnpackSignedLE32(SubSeq(buffer, 1, 4)),
              image |-> StreamRead(chunk.data, INT_PAIR_size, -1)]

\* PtldChunk.create: unk_a, size = unpack(read(8)); image = read(size).
PtldChunkCreate(chunk) ==
    LET buffer == StreamRead(chunk.data, 0, INT_PAIR_size)
    IN  IF Len(buffer) # INT_PAIR_size THEN Raised("struct.error")
        ELSE LET unk_a == UnpackSignedLE32(SubSeq(buffer, 1, 4))
                 size == UnpackSignedLE32(SubSeq(buffer, 5, 8))
                 image == StreamRead(chunk.data, INT_PAIR_size, size)
             IN  [type |-> "PtldChunk", layer |-> unk_a, image |-> image]

\* struct's "f": the float is identified by its IEEE-754 bit pattern, read
\* as a 32-bit integer.
UnpackFloatLE(bs) == [f32 |-> UnpackSignedLE32(bs)]

FloatQuad(buffer) ==
    [i \in 1..4 |-> UnpackFloatLE(SubSeq(buffer, 4 * i - 3, 4 * i))]

\* PtbdChunk.create: four floats from the first 16 bytes.
PtbdChunkCreate(chunk) ==
    LET buffer == StreamRead(chunk.data, 0, FLOAT_QUAD_size)
    IN  IF Len(buffer) # FLOAT_QUAD_size THEN Raised("struct.error")
        ELSE LET args == FloatQuad(buffer)
             IN  [type |-> "PtbdChunk", unk_a |-> args[1], unk_b |-> args[2],
                  unk_c |-> args[3], unk_d |-> args[4]]

\* PtbnChunk.create: the same layout, its own class.
PtbnChunkCreate(chunk) ==
    LET buffer == StreamRead(chunk.data, 0, FLOAT_QUAD_size)
    IN  IF Len(buffer) # FLOAT_QUAD_size THEN Raised("struct.error")
        ELSE LET args == FloatQuad(buffer)
             IN  [type |-> "PtbnChunk", unk_a |-> args[1], unk_b |-> args[2],
                  unk_c |-> args[3], unk_d |-> args[4]]

\* relic.chunk_formats.rsh.ImagChunk.create: the image chunk is kept as it
\* is (its decoding is not part of wtp.py).
ImagChunkCreate(chunk) == [type |-> "ImagChunk", chunk |-> chunk]

\* A plausible slip: the layers collected in reverse.
RECURSIVE PtldListReversed(_)
PtldListReversed(chunks) ==
    IF chunks = <<>> THEN [list |-> <<>>]
    ELSE LET first == PtldChunkCreate(Head(chunks))
         IN  IF IsError(first) THEN first
             ELSE LET rest == PtldListReversed(Tail(chunks))
                  IN  IF IsError(rest) THEN rest
                      ELSE [list |-> rest.list \o <<first>>]

\* [PtldChunk.create(c) for c in ptld_chunks]: the first error raised ends
\* the comprehension.
RECURSIVE PtldList(_)
PtldList(chunks) ==
    IF chunks = <<>> THEN [list |-> <<>>]
    ELSE LET first == PtldChunkCreate(Head(chunks))
         IN  IF IsError(first) THEN first
             ELSE LET rest == PtldList(Tail(chunks))
                  IN  IF IsError(rest) THEN rest
                      ELSE [list |-> <<first>> \o rest.list]

\* A plausible slip: every child looked up as required.
TpatLookupsAllRequired(chunk) ==
    [info_chunk |-> get_chunk(chunk, "INFO", FALSE),
     imag_chunk |-> get_chunk(chunk, "IMAG", FALSE),
     ptld_chunks |-> get_chunk_list(chunk, "PTLD", FALSE),
     ptbd_chunk |-> get_chunk(chunk, "PTBD", FALSE),
     ptbn_chunk |-> get_chunk(chunk, "PTBN", FALSE)]

\* TpatChunk.create, the five lookups.
TpatLookups(chunk) ==
    [info_chunk |-> get_chunk(chunk, "INFO", FALSE),
     imag_chunk |-> get_chunk(chunk, "IMAG", FALSE),
     ptld_chunks |-> get_chunk_list(chunk, "PTLD", TRUE),
     ptbd_chunk |-> get_chunk(chunk, "PTBD", TRUE),
     ptbn_chunk |-> get_chunk(chunk, "PTBN", TRUE)]

\* `x if c else None`: a chunk object is true, None is not.
Truthy(c) == c # None

\* PtbdChunk.create(c) if c else None (written so for ptbd and for ptbn).
PtbdCreateIf(c) == IF Truthy(c) THEN PtbdChunkCreate(c) ELSE None

\* TpatChunk.create, the return: the first exception raised by a create
\* is the outcome, else the TpatChunk.
TpatAssemble(info_, imag, ptld, ptbd, ptbn) ==
    IF IsError(info_) THEN info_
    ELSE IF IsError(imag) THEN imag
    ELSE IF IsError(ptld) THEN ptld
    ELSE IF IsError(ptbd) THEN ptbd
    ELSE IF IsError(ptbn) THEN ptbn
    ELSE [type |-> "TpatChunk", info |-> info_, imag |-> imag,
          ptld |-> ptld.list, ptbd |-> ptbd, ptbn |-> ptbn]

\* TpatChunk.create after its lookups l: an exception raised by a lookup
\* is the outcome, else the creates run in the order written.
TpatDecode(l) ==
    IF IsError(l.info_chunk) THEN l.info_chunk
    ELSE IF IsError(l.imag_chunk) THEN l.imag_chunk
    ELSE IF IsError(l.ptld_chunks) THEN l.ptld_chunks
    ELSE IF IsError(l.ptbd_chunk) THEN l.ptbd_chunk
    ELSE IF IsError(l.ptbn_chunk) THEN l.ptbn_chunk
    ELSE TpatAssemble(InfoChunkCreate(l.info_chunk),
                      ImagChunkCreate(l.imag_chunk),
                      PtldList(l.ptld_chunks.list),
                      PtbdCreateIf(l.ptbd_chunk),
                      PtbdCreateIf(l.ptbn_chunk))

\* TpatChunk.create
TpatChunkCreate(chunk) == TpatDecode(TpatLookups(chunk))

\* The payloads the folders are built from.
IntPair(a, b) == PackSignedLE32(a) \o PackSignedLE32(b)

\* Bytes 1, 2, 3, ...: the first n of them.
Tail_(n) == [i \in 1..n |-> i]

INFO_64x32 == DataChunk("INFO", IntPair(64, 32))
INFO_short == DataChunk("INFO", <<64, 0, 0, 0>>)
IMAG_any == DataChunk("IMAG", <<9, 8, 7>>)
PTLD_0 == DataChunk("PTLD", IntPair(0, 2) \o <<10, 11>>)
PTLD_1 == DataChunk("PTLD", IntPair(1, 2) \o <<20, 21>>)
PTBD_a == DataChunk("PTBD", IntPair(1, 2) \o IntPair(3, 4))
PTBN_b == DataChunk("PTBN", IntPair(5, 6) \o IntPair(7, 8))

ChildPool == {INFO_64x32, INFO_short, IMAG_any, PTLD_0, PTLD_1, PTBD_a, PTBN_b}

\* The ids looked up: those of the pool and one no folder holds.
LookupIds == {"INFO", "IMAG", "PTLD", "PTBD", "PTBN", "SHRF"}

Folders ==
    {FolderChunk("TPAT", cs) : cs \in UNION {[1..n -> ChildPool] : n \in 0..MaxChildren}}

InitTpat ==
    /\ OffsetIdle /\ WindowIdle /\ BatchIdle
    /\ folder \in Folders
    /\ call = None
    /\ decoded = None

\* folder.get_chunk(id, optional)
GetChunk(id, optional) ==
    /\ call' = [op |-> "get_chunk", id |-> id, optional |-> optional,
                result |-> get_chunk(folder, id, optional)]
    /\ UNCHANGED <<folder, decoded, offsetVars, windowVars, batchVars>>

\* folder.get_chunk_list(id, optional)
GetChunkList(id, optional) ==
    /\ call' = [op |-> "get_chunk_list", id |-> id, optional |-> optional,
                result |-> get_chunk_list(folder, id, optional)]
    /\ UNCHANGED <<folder, decoded, offsetVars, windowVars, batchVars>>

\* TpatChunk.create(folder)
TpatCreate ==
    /\ call' = [op |-> "TpatChunk.create", id |-> "TPAT", optional |-> FALSE,
                result |-> TpatChunkCreate(folder)]
    /\ UNCHANGED <<folder, decoded, offsetVars, windowVars, batchVars>>

NextTpat ==
    \/ \E id \in LookupIds, optional \in BOOLEAN : GetChunk(id, optional)
    \/ \E id \in LookupIds, optional \in BOOLEAN : GetChunkList(id, optional)
    \/ TpatCreate

SpecTpat == InitTpat /\ [][NextTpat]_vars

\* The positions of the children of the folder with the given id.
Positions(id) == {i \in DOMAIN folder.chunks : folder.chunks[i].id = id}
Has(id) == Positions(id) # {}
FirstOf(id) == folder.chunks[CHOOSE i \in Positions(id) : \A j \in Positions(id) : i <= j]
HasId_PTLD(c) == c.id = "PTLD"

Created == call # None /\ call.op = "TpatChunk.create"
Succeeded == Created /\ ~IsError(call.result)

\* C4: with no child of the id, get_chunk returns None when optional and
\* raises ChunkNotFoundError when not; so TpatChunk.create on a folder with
\* INFO (decodable) and IMAG but no PTLD, PTBD or PTBN succeeds with
\* ptld empty, ptbd None and ptbn None, and on a folder without INFO or
\* without IMAG it raises ChunkNotFoundError and returns no TpatChunk.
C4_OptionalAbsence ==
    /\ (call # None /\ call.op = "get_chunk" /\ ~Has(call.id)) =>
            call.result = (IF call.optional THEN None ELSE Raised("ChunkNotFoundError"))
    /\ (Created /\ Has("INFO") /\ Has("IMAG") /\ Len(FirstOf("INFO").data) >= INT_PAIR_size
            /\ ~Has("PTLD") /\ ~Has("PTBD") /\ ~Has("PTBN")) =>
            /\ Succeeded
            /\ call.result.ptld = <<>>
            /\ call.result.ptbd = None
            /\ call.result.ptbn = None
    /\ (Created /\ (~Has("INFO") \/ ~Has("IMAG"))) =>
            call.result = Raised("ChunkNotFoundError")

\* C4 witness: create succeeded on a folder of INFO and IMAG alone.
C4_Witness ==
    /\ Succeeded
    /\ folder.chunks = <<IMAG_any, INFO_64x32>>
    /\ call.result.ptld = <<>> /\ call.result.ptbd = None /\ call.result.ptbn = None

\* C5: get_chunk_list returns exactly the children with the id, in
\* document order, get_chunk the first of them, and the ptld list of
\* TpatChunk.create has one entry per PTLD child, in their order.
C5_LookupOrder ==
    /\ (call # None /\ call.op = "get_chunk_list" /\ ~IsError(call.result)) =>
            call.result.list = SelectSeq(folder.chunks, LAMBDA c : c.id = call.id)
    /\ (call # None /\ call.op = "get_chunk" /\ Has(call.id)) =>
            call.result = FirstOf(call.id)
    /\ Succeeded =>
            LET children == SelectSeq(folder.chunks, HasId_PTLD)
            IN  /\ Len(call.result.ptld) = Len(children)
                /\ \A k \in DOMAIN children :
                       call.result.ptld[k] = PtldChunkCreate(children[k])

\* C5 witness: two different PTLD children, apart and out of layer order,
\* came back in document order.
C5_Witness ==
    /\ Succeeded
    /\ folder.chunks = <<PTLD_1, INFO_64x32, PTLD_0, IMAG_any>>
    /\ call.result.ptld = <<PtldChunkCreate(PTLD_1), PtldChunkCreate(PTLD_0)>>

\* C10: the TpatChunk made from a folder with INFO and IMAG has ptbd a
\* PtbdChunk decoded from the PTBD child (None without one) and ptbn a
\* PtbnChunk decoded from the PTBN child (None without one).
C10_ResultTyping ==
    Succeeded =>
        /\ call.result.ptbd =
              (IF Has("PTBD") THEN PtbdChunkCreate(FirstOf("PTBD")) ELSE None)
        /\ call.result.ptbn =
              (IF Has("PTBN") THEN PtbnChunkCreate(FirstOf("PTBN")) ELSE None)

\* ------------------------------------------------------------------------
\* The data chunk decoders on their own: InfoChunk.create, PtldChunk.create
\* ------------------------------------------------------------------------

MinInt32 == -2147483647 - 1
MaxInt32 == 2147483647

\* The integers written into payload headers: the ends of the int32 range,
\* the sizes around the tails' lengths and the scenario's 64 and 32.
IntValues == {MinInt32, -2, -1, 32, 64, 255, 256, 65536, MaxInt32} \cup (0..(MaxTail + 1))

Tails == {Tail_(n) : n \in 0..MaxTail}

\* Payloads with a whole header, and the ones cut short inside it.
WholePayloads == {IntPair(a, b) \o t : a, b \in IntValues, t \in Tails}
CutPayloads == {SubSeq(IntPair(64, 32), 1, n) : n \in 0..(INT_PAIR_size - 1)}

DecodeInputs ==
    {DataChunk(id, d) : id \in {"INFO", "PTLD"}, d \in WholePayloads \cup CutPayloads}

InitDecode ==
    /\ OffsetIdle /\ WindowIdle /\ BatchIdle
    /\ folder = None
    /\ call = None
    /\ decoded \in {[chunk |-> c, result |-> None] : c \in DecodeInputs}

\* InfoChunk.create(chunk)
InfoCreate ==
    /\ decoded.chunk.id = "INFO"
    /\ decoded.result = None
    /\ decoded' = [decoded EXCEPT !.result = InfoChunkCreate(decoded.chunk)]
    /\ UNCHANGED <<folder, call, offsetVars, windowVars, batchVars>>

\* PtldChunk.create(chunk)
PtldCreate ==
    /\ decoded.chunk.id = "PTLD"
    /\ decoded.result = None
    /\ decoded' = [decoded EXCEPT !.result = PtldChunkCreate(decoded.chunk)]
    /\ UNCHANGED <<folder, call, offsetVars, windowVars, batchVars>>

NextDecode ==
    \/ InfoCreate
    \/ PtldCreate

SpecDecode == InitDecode /\ [][NextDecode]_vars

InfoDecoded ==
    decoded # None /\ decoded.chunk.id = "INFO" /\ decoded.result # None

\* C8: for an INFO payload that begins with two little-endian int32, h then
\* w, InfoChunk.create returns height h and width w, whatever bytes follow
\* the first eight (the scenario: height 64, width 32).
C8_InfoDecode ==
    InfoDecoded =>
        \A h, w \in IntValues, t \in Tails :
            decoded.chunk.data = IntPair(h, w) \o t =>
                decoded.result = [type |-> "InfoChunk", width |-> w, height |-> h]

\* C8 witness: the scenario's payload, with bytes after the header.
C8_Witness ==
    /\ InfoDecoded
    /\ decoded.chunk.data = IntPair(64, 32) \o Tail_(2)
    /\ decoded.result.height = 64
    /\ decoded.result.width = 32

PtldDecoded ==
    decoded # None /\ decoded.chunk.id = "PTLD" /\ decoded.result # None

\* C11: for a PTLD payload of at least 8 bytes whose second little-endian
\* int32, the declared size s, is not negative, PtldChunk.create raises
\* nothing, layer is the first int32 and image is payload[8 : 8+s]: the
\* first min(s, len(payload) - 8) bytes after the header, so never a byte
\* from outside the payload, and a shortened image when the payload is
\* shorter than 8 + s.
C11_PtldPayloadBound ==
    PtldDecoded =>
        \A a, s \in IntValues, t \in Tails :
            (decoded.chunk.data = IntPair(a, s) \o t /\ s >= 0) =>
                /\ decoded.result =
                       [type |-> "PtldChunk", layer |-> a,
                        image |-> [i \in 1..Min(s, Len(t)) |-> t[i]]]
                /\ Len(decoded.result.image) =
                       Min(s, Len(decoded.chunk.data) - INT_PAIR_size)

\* C11 witness: a payload shorter than 8 + s gave a shortened image, and
\* no error.
C11_Witness ==
    /\ PtldDecoded
    /\ decoded.chunk.data = IntPair(1, 3) \o Tail_(2)
    /\ decoded.result.layer = 1
    /\ decoded.result.image = Tail_(2)

\* ------------------------------------------------------------------------
\* The scoped stream window (stream_jump_to, used by dump_archive)
\* ------------------------------------------------------------------------

Closed == [state |-> "closed"]

\* A slip the window is there to prevent: the position left where the
\* inner scope stopped.
ReleaseWhereLeft(w, pos) == pos

\* Where the outer stream stands once the window is released.
ReleasePosition(w, pos) == w.start + w.length

\* Where a read of n bytes at pos ends inside the window: never past the
\* window's end, nor the stream's.
WindowReadEnd(w, data, pos, n) ==
    Min(Min(pos + n, w.start + w.length), Len(data))

InitWindow ==
    /\ OffsetIdle /\ TpatIdle /\ BatchIdle
    /\ outer \in {[data |-> Tail_(MaxStream), pos |-> p] : p \in 0..MaxStream}
    /\ win = Closed

\* with scoped_window(stream, start, length): the stream jumps to start.
OpenWindow(start, length) ==
    /\ win.state # "open"
    /\ win' = [state |-> "open", start |-> start, length |-> length,
               consumed |-> 0, cut |-> FALSE, lastRead |-> None]
    /\ outer' = [outer EXCEPT !.pos = start]
    /\ UNCHANGED <<offsetVars, tpatVars, batchVars>>

\* A read of n bytes inside the scope; cut records that some read was
\* given fewer bytes than it asked for.
WindowRead(n) ==
    /\ win.state = "open"
    /\ LET end == WindowReadEnd(win, outer.data, outer.pos, n)
           bytes == SubSeq(outer.data, outer.pos + 1, end)
       IN  /\ win' = [win EXCEPT !.consumed = @ + Len(bytes),
                                 !.cut = @ \/ Len(bytes) < n,
                                 !.lastRead = [from |-> outer.pos, bytes |-> bytes]]
           /\ outer' = [outer EXCEPT !.pos = @ + Len(bytes)]
    /\ UNCHANGED <<offsetVars, tpatVars, batchVars>>

\* The scope is left, by its end or by an error raised inside it.
ReleaseWindow(exit) ==
    /\ win.state = "open"
    /\ win' = [win EXCEPT !.state = "released", !.lastRead = None] @@ [exit |-> exit]
    /\ outer' = [outer EXCEPT !.pos = ReleasePosition(win, outer.pos)]
    /\ UNCHANGED <<offsetVars, tpatVars, batchVars>>

NextWindow ==
    \/ \E start \in 0..MaxStream, length \in 0..MaxStream : OpenWindow(start, length)
    \/ \E n \in 1..(MaxStream + 1) : WindowRead(n)
    \/ \E exit \in {"end", "error"} : ReleaseWindow(exit)

SpecWindow == InitWindow /\ [][NextWindow]_vars

\* C6: when a window opened at (start, length) is released, the outer
\* stream stands at start + length, however much the scope read and
\* however it was left; a read inside the window returns only bytes of
\* [start, start + length).
C6_ScopedWindow ==
    /\ win.state = "released" => outer.pos = win.start + win.length
    /\ (win.state = "open" /\ win.lastRead # None) =>
            /\ win.lastRead.from >= win.start
            /\ win.lastRead.from + Len(win.lastRead.bytes) <= win.start + win.length
            /\ win.lastRead.bytes =
                   SubSeq(outer.data, win.lastRead.from + 1,
                          win.lastRead.from + Len(win.lastRead.bytes))

\* C6 witness: a scope that read less than its window and was left by an
\* error; the stream stands at the window's end.
C6_Witness ==
    /\ win.state = "released"
    /\ win.exit = "error"
    /\ win.length = 3
    /\ win.consumed = 1
    /\ outer.pos = win.start + 3

\* ------------------------------------------------------------------------
\* The batch tools: dump_all_wtp_as_image (wtp.py) and run (dumpy_chunky.py)
\* ------------------------------------------------------------------------

\* The errors of the parsing taxonomy.
TaxonomyErrors ==
    {"TruncatedReadError", "MalformedHeaderError", "TruncatedPayloadError",
     "ChunkNotFoundError", "UnsupportedFormatError", "UnsupportedChunkTypeError"}

\* What reading a file as a chunky can raise: the taxonomy's read errors
\* and the TypeError the dumpers expect.
UnpackErrors ==
    {"TypeError", "TruncatedReadError", "MalformedHeaderError",
     "TruncatedPayloadError", "UnsupportedFormatError"}

\* A file on disk: what RelicChunky.unpack makes of it ("ok" and its
\* top-level chunks, or the error raised), its extension, and whether its
\* image format is one get_ext / create_image support.
File(unpack, chunks, ext, image) ==
    [unpack |-> unpack, chunks |-> chunks, ext |-> ext, image |-> image]

TPAT_good == FolderChunk("TPAT", <<INFO_64x32, IMAG_any, PTLD_0>>)
TPAT_noInfo == FolderChunk("TPAT", <<IMAG_any>>)
TPAT_shortInfo == FolderChunk("TPAT", <<INFO_short, IMAG_any>>)

FilePool ==
    {File("ok", <<TPAT_good>>, "wtp", "ok"),
     File("ok", <<TPAT_good>>, "wtp", "NotImplementedError"),
     File("ok", <<TPAT_good>>, "xyz", "ok"),
     File("ok", <<>>, "wtp", "ok"),
     File("ok", <<TPAT_noInfo>>, "wtp", "ok"),
     File("ok", <<TPAT_shortInfo>>, "wtp", "ok")}
    \cup {File(e, <<>>, "wtp", "ok") : e \in UnpackErrors}

\* RelicChunky.unpack(handle) / read_chunky(handle)
RelicChunkyUnpack(file) ==
    IF file.unpack = "ok" THEN [type |-> "RelicChunky", chunks |-> file.chunks]
    ELSE Raised(file.unpack)

\* WtpFile.create: the TPAT folder of the chunky, decoded.
WtpFileCreate(chunky) ==
    Bind(get_chunk(chunky, "TPAT", FALSE), LAMBDA tpat_folder :
        Bind(TpatChunkCreate(tpat_folder), LAMBDA t :
            [type |-> "WtpFile", tpat |-> t]))

\* except TypeError: return None
ExceptTypeError(r) == IF r = Raised("TypeError") THEN None ELSE r

\* get_wtp: unpack and create inside try; except TypeError: return None.
GetWtp(file) ==
    ExceptTypeError(Bind(RelicChunkyUnpack(file), LAMBDA chunky : WtpFileCreate(chunky)))

\* dump_wtp_as_image: "Cant parse" for no wtp, else the images are written;
\* an image format that is not supported raises NotImplementedError.
DumpWtpAsImage(file) ==
    Bind(GetWtp(file), LAMBDA wtp :
        IF wtp = None THEN [done |-> "cant parse"]
        ELSE IF file.image # "ok" THEN Raised(file.image)
        ELSE [done |-> "dumped"])

\* except NotImplementedError as e: print(e)
ExceptNotImplemented(r) ==
    IF r = Raised("NotImplementedError") THEN [done |-> "printed"] ELSE r

\* The body of dump_all_wtp_as_image's loop: try dump_wtp_as_image except
\* NotImplementedError.
DumpAllBody(file) == ExceptNotImplemented(DumpWtpAsImage(file))

\* The extensions the converter has a decoder for.
Registered == {"wtp"}

\* ChunkyConverterFactory.convert(ext, chunky)
Convert(ext, chunky) ==
    IF ext \notin Registered THEN Raised("UnsupportedChunkTypeError")
    ELSE WtpFileCreate(chunky)

\* The body of run's loop: read_chunky inside try / except: print; raise,
\* then convert outside it.
RunBody(file) ==
    Bind(RelicChunkyUnpack(file), LAMBDA chunky :
        Bind(Convert(file.ext, chunky), LAMBDA converted :
            [done |-> "converted"]))

Tools == {"dump_all_wtp_as_image", "run"}

Batches == UNION {[1..n -> FilePool] : n \in 0..MaxFiles}

InitBatch ==
    /\ OffsetIdle /\ TpatIdle /\ WindowIdle
    /\ batch \in {[tool |-> t, files |-> fs, i |-> 1, log |-> <<>>,
                   status |-> "running", error |-> "none"] :
                  t \in Tools, fs \in Batches}

\* One pass of the loop, or the exception that leaves it.
LoopStep(body) ==
    /\ batch.status = "running"
    /\ batch.i <= Len(batch.files)
    /\ IF IsError(body)
       THEN batch' = [batch EXCEPT !.status = "raised", !.error = body.error]
       ELSE batch' = [batch EXCEPT !.i = @ + 1, !.log = Append(@, body.done)]
    /\ UNCHANGED <<offsetVars, tpatVars, windowVars>>

DumpAllStep ==
    /\ batch.tool = "dump_all_wtp_as_image"
    /\ LoopStep(DumpAllBody(batch.files[batch.i]))

RunStep ==
    /\ batch.tool = "run"
    /\ LoopStep(RunBody(batch.files[batch.i]))

\* The loop runs out of files.
BatchEnd ==
    /\ batch.status = "running"
    /\ batch.i > Len(batch.files)
    /\ batch' = [batch EXCEPT !.status = "done"]
    /\ UNCHANGED <<offsetVars, tpatVars, windowVars>>

NextBatch ==
    \/ DumpAllStep
    \/ RunStep
    \/ BatchEnd

SpecBatch == InitBatch /\ [][NextBatch]_vars

\* C9: an error of the parsing taxonomy raised for one file of a batch is
\* caught for that file, and the files after it are still processed: no
\* batch ends on a taxonomy error with files left.
C9_ErrorIsolation ==
    (batch.status = "raised" /\ batch.error \in TaxonomyErrors) =>
        Len(batch.log) = Len(batch.files)

====
